---- MODULE Spec2Model ----
(***************************************************************************)
(* Model of the lobby / challenge / tic-tac-toe session core of            *)
(* src/server.js (the first, complete server: lines 20-363).               *)
(*                                                                         *)
(* Every socket.io handler is one atomic action (Node runs a handler to    *)
(* completion).  The two asynchronous places of the code are split where   *)
(* the code awaits: joinLobby awaits the user lookup (JoinLobby /          *)
(* JoinLobbyFound / JoinLobbyNotFound / JoinLobbyError), and endGame       *)
(* awaits the two statistics updates (QuitGame / StatsCommit / StatsFail / *)
(* EndGameThen / EndGameCatch).                                            *)
(*                                                                         *)
(* Identifiers arrive from clients either as numbers or as numeric         *)
(* strings.  A number u is modelled as u, the string "u" as u + 10; Key    *)
(* is the coercion JavaScript applies to a property key, to == and to      *)
(* String(), while === and !== compare the representation as well.         *)
(*                                                                         *)
(* The users table itself is the external collaborator: the model keeps    *)
(* which ids it resolves (Users) and records every UPDATE the server       *)
(* issues as a "dbUpdate" message in out.                                  *)
(*                                                                         *)
(* The replay handshake exists only in the server of src/unnamed/part_004; *)
(* its handlers are the Replay... actions and RequestReplay, over the same *)
(* variables.                                                              *)
(***************************************************************************)
EXTENDS Integers, FiniteSets, Sequences, Bags, TLC

VARIABLES
    connected,          \* sockets whose connection is open
    closed,             \* sockets whose connection has closed
    onlineUsers,        \* user key -> [socketId, inGame]
    pendingChallenges,  \* challenged key -> challengerId
    activeGames,        \* gameId -> [players, board, currentTurn, winner]
    joinQ,              \* joinLobby lookups in flight: bag of <<socket, userId>>
    lastJoin,           \* user key -> the socket that sent the latest joinLobby for it
    replaced,           \* the challenger whose stored challenge the last step overwrote, or Null
    stale,              \* the <<open socket, user key>> pairs of entries that a join from another connection overwrote
    endQ,               \* endGame promise chains in flight: bag of records
    ev,                 \* the event handled by the last step
    out                 \* the messages emitted by the last step

vars == <<connected, closed, onlineUsers, pendingChallenges, activeGames,
          joinQ, lastJoin, replaced, stale, endQ, ev, out>>

---------------------------------------------------------------------------
(* Bounds *)

MaxJoinQ == 2       \* joinLobby lookups in flight at once
MaxEndQ == 1        \* endGame chains in flight at once
MaxStamp == 0       \* values of Date.now() an accepted challenge can see: 0..MaxStamp
MaxPending == 2     \* challenges queued for one challenged id (part_004)

---------------------------------------------------------------------------
(* Identifiers *)

Users == {1, 2, 3}          \* ids of the rows of the users table
UnknownUser == 4            \* an id no row matches
Sockets == {1, 2, 3}        \* socket ids, in order of connection
AllSockets == 0             \* the target of io.emit

Null == 0                   \* null, undefined
Tie == 99                   \* the string 'tie'

Str(u) == u + 10
Key(id) == IF id > 10 THEN id - 10 ELSE id
NumIds == Users \cup {UnknownUser}
AllIds == NumIds \cup {Str(u) : u \in Users}

\* `game_${Date.now()}_${challengerId}_${challengedId}`
GameId(now, challengerId, challengedId) == <<now, Key(challengerId), Key(challengedId)>>
StaleGameId == <<0, 0, 0>>  \* a game id no accepted challenge produces

---------------------------------------------------------------------------
(* Board *)

Cells == 0 .. 8
OutOfRange == {-1, 9}       \* cellIndex values outside the 9 cells
BoardKeys == Cells \cup OutOfRange
EmptyBoard == [k \in BoardKeys |-> "E"]   \* Array(9).fill(null); "E" is null or undefined

\* board.length: writing index 9 grows the array, writing -1 adds a property
BoardLength(board) == IF board[9] # "E" THEN 10 ELSE 9

WinLines == << <<0,1,2>>, <<3,4,5>>, <<6,7,8>>,
               <<0,3,6>>, <<1,4,7>>, <<2,5,8>>,
               <<0,4,8>>, <<2,4,6>> >>

LineHit(board, i) ==
    /\ board[WinLines[i][1]] # "E"
    /\ board[WinLines[i][1]] = board[WinLines[i][2]]
    /\ board[WinLines[i][2]] = board[WinLines[i][3]]

\* checkWinner with the two diagonals missing from lines
checkWinnerNoDiagonals(board) ==
    IF \E i \in 1 .. 6 : LineHit(board, i)
    THEN LET i == CHOOSE i \in 1 .. 6 :
                    LineHit(board, i) /\ \A j \in 1 .. (i - 1) : ~LineHit(board, j)
         IN board[WinLines[i][1]]
    ELSE "E"

\* checkWinner with only the three rows in lines
checkWinnerRowsOnly(board) ==
    IF \E i \in 1 .. 3 : LineHit(board, i)
    THEN LET i == CHOOSE i \in 1 .. 3 :
                    LineHit(board, i) /\ \A j \in 1 .. (i - 1) : ~LineHit(board, j)
         IN board[WinLines[i][1]]
    ELSE "E"

\* returns 'X' or 'O' of the first line that is owned, or null ("E")
checkWinner(board) ==
    IF \E i \in 1 .. Len(WinLines) : LineHit(board, i)
    THEN LET i == CHOOSE i \in 1 .. Len(WinLines) :
                    LineHit(board, i) /\ \A j \in 1 .. (i - 1) : ~LineHit(board, j)
         IN board[WinLines[i][1]]
    ELSE "E"

\* game.board.every(c => c !== null): the indices below length that exist
BoardFull(board) == \A i \in Cells : board[i] # "E"

---------------------------------------------------------------------------
(* Messages and events *)

Msg(type, to, a, b, c) == [type |-> type, to |-> to, a |-> a, b |-> b, c |-> c]

Event(op, sock, a, b, g, cell) ==
    [op |-> op, sock |-> sock, a |-> a, b |-> b, g |-> g, cell |-> cell]

NoEvent == Event("init", 0, 0, 0, StaleGameId, 0)

\* io.to(onlineUsers[id].socketId).emit(...) for the ids that have an entry
EmitToUsers(users, ids, type, a, b, c) ==
    {Msg(type, users[Key(id)].socketId, a, b, c) : id \in {i \in ids : Key(i) \in DOMAIN users}}

\* the playerArray without its inGame fields
SnapshotNoInGame(users) ==
    LET d(u) == IF u \in DOMAIN users THEN 1 ELSE 0
    IN d(1) + 3 * d(2) + 9 * d(3)

\* playerArray = Object.values(onlineUsers).map(u => ({userId, inGame, ...})), as
\* a number: the digit of user u in base 3 is 0 without an entry, 1 with an
\* entry that is free, 2 with an entry that is inGame
Snapshot(users) ==
    LET d(u) == IF u \in DOMAIN users THEN (IF users[u].inGame THEN 2 ELSE 1) ELSE 0
    IN d(1) + 3 * d(2) + 9 * d(3)

\* io.emit('onlinePlayers', playerArray), called when the registry is users
broadcastLobby(users) == {Msg("onlinePlayers", AllSockets, Snapshot(users), 0, 0)}

\* a delete that empties the whole object
RemoveAll(f, k) == << >>

\* delete obj[k]
Remove(f, k) == [x \in (DOMAIN f) \ {k} |-> f[x]]
\* an assignment that does not overwrite a key that is present
PutKeepOld(f, k, v) == [x \in (DOMAIN f) \cup {k} |-> IF x \in DOMAIN f THEN f[x] ELSE v]

\* obj[k] = v
Put(f, k, v) == [x \in (DOMAIN f) \cup {k} |-> IF x = k THEN v ELSE f[x]]

---------------------------------------------------------------------------
(* Construction *)

Init ==
    /\ connected = {}
    /\ closed = {}
    /\ onlineUsers = << >>
    /\ pendingChallenges = << >>
    /\ activeGames = << >>
    /\ joinQ = EmptyBag
    /\ lastJoin = << >>
    /\ stale = {}
    /\ replaced = Null
    /\ endQ = EmptyBag
    /\ ev = NoEvent
    /\ out = {}

---------------------------------------------------------------------------
(* Connections *)

\* io.on('connection'): socket ids are fresh, taken in order
Connect(s) ==
    /\ s \notin connected \cup closed
    /\ \A t \in Sockets : t < s => t \in connected \cup closed
    /\ connected' = connected \cup {s}
    /\ ev' = Event("connection", s, 0, 0, StaleGameId, 0)
    /\ out' = {}
    /\ replaced' = Null
    /\ UNCHANGED stale
    /\ UNCHANGED <<lastJoin, closed, onlineUsers, pendingChallenges, activeGames, joinQ, endQ>>

---------------------------------------------------------------------------
(* joinLobby *)

Entry(s) == [socketId |-> s, inGame |-> FALSE]

\* WHERE id = ? OR telegram_id = ?: the row the lookup returns, Null when none
Resolve(userId) == IF Key(userId) \in Users THEN Key(userId) ELSE Null

\* the handler up to `await pool.query(...)`
JoinLobby(s, userId) ==
    /\ s \in connected
    /\ BagCardinality(joinQ) < MaxJoinQ
    /\ joinQ' = joinQ (+) SetToBag({<<s, userId>>})
    /\ lastJoin' = IF Resolve(userId) = Null THEN lastJoin ELSE Put(lastJoin, Resolve(userId), s)
    /\ ev' = Event("joinLobby", s, userId, 0, StaleGameId, 0)
    /\ out' = {}
    /\ replaced' = Null
    /\ UNCHANGED stale
    /\ UNCHANGED <<connected, closed, onlineUsers, pendingChallenges, activeGames, endQ>>

\* onlineUsers[user.id] = {userId, socketId: socket.id, ..., inGame: false}
JoinStore(users, id, s) == Put(users, id, Entry(s))

\* the lookup returned a row: the entry is written and the lobby broadcast
JoinLobbyFound(s, userId) ==
    /\ BagIn(<<s, userId>>, joinQ)
    /\ Resolve(userId) # Null
    /\ joinQ' = joinQ (-) SetToBag({<<s, userId>>})
    /\ onlineUsers' = JoinStore(onlineUsers, Resolve(userId), s)
    /\ ev' = Event("joinLobbyFound", s, userId, 0, StaleGameId, 0)
    /\ out' = broadcastLobby(JoinStore(onlineUsers, Resolve(userId), s))
    /\ replaced' = Null
    /\ stale' = IF /\ Resolve(userId) \in DOMAIN onlineUsers
                    /\ onlineUsers[Resolve(userId)].socketId \in connected \ {s}
                 THEN (stale \ {<<s, Resolve(userId)>>})
                          \cup {<<onlineUsers[Resolve(userId)].socketId, Resolve(userId)>>}
                 ELSE stale \ {<<s, Resolve(userId)>>}
    /\ UNCHANGED <<lastJoin, connected, closed, pendingChallenges, activeGames, endQ>>

\* the lookup returned no row: errorMsg 'User not found'
JoinLobbyNotFound(s, userId) ==
    /\ BagIn(<<s, userId>>, joinQ)
    /\ Resolve(userId) = Null
    /\ joinQ' = joinQ (-) SetToBag({<<s, userId>>})
    /\ ev' = Event("joinLobbyNotFound", s, userId, 0, StaleGameId, 0)
    /\ out' = {Msg("errorMsg", s, 0, 0, 0)}
    /\ replaced' = Null
    /\ UNCHANGED stale
    /\ UNCHANGED <<lastJoin, connected, closed, onlineUsers, pendingChallenges, activeGames, endQ>>

\* the lookup was rejected: errorMsg 'Failed to join lobby'
JoinLobbyError(s, userId) ==
    /\ BagIn(<<s, userId>>, joinQ)
    /\ joinQ' = joinQ (-) SetToBag({<<s, userId>>})
    /\ ev' = Event("joinLobbyError", s, userId, 0, StaleGameId, 0)
    /\ out' = {Msg("errorMsg", s, 0, 0, 0)}
    /\ replaced' = Null
    /\ UNCHANGED stale
    /\ UNCHANGED <<lastJoin, connected, closed, onlineUsers, pendingChallenges, activeGames, endQ>>

---------------------------------------------------------------------------
(* Challenges *)

\* the early returns without `if (onlineUsers[challengedId].inGame)`
ChallengeRejectedNoBusyCheck(users, challengerId, challengedId) ==
    \/ Key(challengerId) \notin DOMAIN users
    \/ Key(challengedId) \notin DOMAIN users

\* the two early returns of sendChallenge
ChallengeRejected(users, challengerId, challengedId) ==
    \/ Key(challengerId) \notin DOMAIN users
    \/ Key(challengedId) \notin DOMAIN users
    \/ users[Key(challengedId)].inGame

SendChallenge(s, challengerId, challengedId) ==
    /\ s \in connected
    /\ ev' = Event("sendChallenge", s, challengerId, challengedId, StaleGameId, 0)
    /\ IF ChallengeRejected(onlineUsers, challengerId, challengedId)
       THEN /\ out' = {Msg("errorMsg", s, 0, 0, 0)}
            /\ replaced' = Null
            /\ UNCHANGED stale
            /\ UNCHANGED pendingChallenges
       ELSE /\ pendingChallenges' = Put(pendingChallenges, Key(challengedId), challengerId)
            /\ replaced' = IF Key(challengedId) \in DOMAIN pendingChallenges
                           THEN pendingChallenges[Key(challengedId)]
                           ELSE Null
            /\ UNCHANGED stale
            /\ out' = {Msg("challengeReceived", onlineUsers[Key(challengedId)].socketId,
                           challengerId, 0, 0)}
    /\ UNCHANGED <<lastJoin, connected, closed, onlineUsers, activeGames, joinQ, endQ>>

\* the game object acceptChallenge creates
NewGame(challengerId, challengedId) ==
    [players |-> <<challengerId, challengedId>>,
     board |-> EmptyBoard,
     currentTurn |-> challengerId,
     winner |-> Null]

\* if (onlineUsers[id]) onlineUsers[id].inGame = true, for both players
MarkInGame(users, challengerId, challengedId) ==
    [k \in DOMAIN users |->
        IF k \in {Key(challengerId), Key(challengedId)}
        THEN [users[k] EXCEPT !.inGame = TRUE]
        ELSE users[k]]

\* an acceptChallenge that finds no challenge and tells nobody
NoChallengeFoundSilent(s) == {}

\* if (!challenge) { socket.emit('errorMsg', 'No challenge found'); return; }
NoChallengeFound(s) == {Msg("errorMsg", s, 0, 0, 0)}

AcceptChallenge(s, challengedId, now) ==
    /\ s \in connected
    /\ IF Key(challengedId) \notin DOMAIN pendingChallenges
       THEN /\ ev' = Event("acceptChallenge", s, challengedId, 0, StaleGameId, 0)
            /\ out' = NoChallengeFound(s)
            /\ UNCHANGED <<pendingChallenges, activeGames, onlineUsers>>
       ELSE LET challengerId == pendingChallenges[Key(challengedId)]
                gameId == GameId(now, challengerId, challengedId)
                users == MarkInGame(onlineUsers, challengerId, challengedId)
            IN /\ pendingChallenges' = Remove(pendingChallenges, Key(challengedId))
               /\ activeGames' = Put(activeGames, gameId, NewGame(challengerId, challengedId))
               /\ onlineUsers' = users
               /\ ev' = Event("acceptChallenge", s, challengedId, challengerId, gameId, 0)
               /\ out' = EmitToUsers(users, {challengerId}, "gameStarted", challengedId, 0, 0)
                         \cup EmitToUsers(users, {challengedId}, "gameStarted", challengerId, 0, 0)
                         \cup broadcastLobby(users)
    /\ replaced' = Null
    /\ UNCHANGED stale
    /\ UNCHANGED <<lastJoin, connected, closed, joinQ, endQ>>

RefuseChallenge(s, challengedId) ==
    /\ s \in connected
    /\ ev' = Event("refuseChallenge", s, challengedId, 0, StaleGameId, 0)
    /\ IF Key(challengedId) \notin DOMAIN pendingChallenges
       THEN /\ out' = {}
            /\ UNCHANGED pendingChallenges
       ELSE /\ pendingChallenges' = Remove(pendingChallenges, Key(challengedId))
            /\ out' = EmitToUsers(onlineUsers, {pendingChallenges[Key(challengedId)]},
                                  "challengeRefused", challengedId, 0, 0)
    /\ replaced' = Null
    /\ UNCHANGED stale
    /\ UNCHANGED <<lastJoin, connected, closed, onlineUsers, activeGames, joinQ, endQ>>

---------------------------------------------------------------------------
(* makeMove *)

\* the validation without its `|| game.winner`
MoveRejectedNoWinnerCheck(game, userId, cellIndex) ==
    \/ game.currentTurn # userId
    \/ game.board[cellIndex] # "E"

\* if (game.currentTurn !== userId || game.board[cellIndex] || game.winner) return;
MoveRejected(game, userId, cellIndex) ==
    \/ game.currentTurn # userId
    \/ game.board[cellIndex] # "E"
    \/ game.winner # Null

\* const mark = (userId == p1) ? 'X' : 'O';
MarkOf(game, userId) == IF Key(userId) = Key(game.players[1]) THEN "X" ELSE "O"

\* the evaluation without its `else if (game.board.every(...))` branch
OutcomeNoTie(game, board, userId) ==
    LET p1 == game.players[1]
        p2 == game.players[2]
        winnerMark == checkWinner(board)
    IN IF winnerMark # "E"
       THEN [winner |-> IF winnerMark = "X" THEN p1 ELSE p2, currentTurn |-> game.currentTurn]
       ELSE [winner |-> Null,
             currentTurn |-> IF Key(userId) = Key(p1) THEN p2 ELSE p1]

\* the winner, tie or turn switch after the mark is written
Outcome(game, board, userId) ==
    LET p1 == game.players[1]
        p2 == game.players[2]
        winnerMark == checkWinner(board)
    IN IF winnerMark # "E"
       THEN [winner |-> IF winnerMark = "X" THEN p1 ELSE p2, currentTurn |-> game.currentTurn]
       ELSE IF BoardFull(board)
       THEN [winner |-> Tie, currentTurn |-> game.currentTurn]
       ELSE [winner |-> Null,
             currentTurn |-> IF Key(userId) = Key(p1) THEN p2 ELSE p1]

\* the game after an accepted move
ApplyMove(game, userId, cellIndex) ==
    LET board == [game.board EXCEPT ![cellIndex] = MarkOf(game, userId)]
        o == Outcome(game, board, userId)
    IN [game EXCEPT !.board = board, !.winner = o.winner, !.currentTurn = o.currentTurn]

MakeMove(s, gameId, userId, cellIndex) ==
    /\ s \in connected
    /\ ev' = Event("makeMove", s, userId, 0, gameId, cellIndex)
    /\ IF gameId \notin DOMAIN activeGames
       THEN /\ out' = {}
            /\ UNCHANGED activeGames
       ELSE IF MoveRejected(activeGames[gameId], userId, cellIndex)
       THEN /\ out' = {}
            /\ UNCHANGED activeGames
       ELSE /\ activeGames' = [activeGames EXCEPT
                                 ![gameId] = ApplyMove(activeGames[gameId], userId, cellIndex)]
            /\ out' = EmitToUsers(onlineUsers,
                                  {activeGames[gameId].players[1], activeGames[gameId].players[2]},
                                  "updateGame", 0, 0, 0)
    /\ replaced' = Null
    /\ UNCHANGED stale
    /\ UNCHANGED <<lastJoin, connected, closed, onlineUsers, pendingChallenges, joinQ, endQ>>

---------------------------------------------------------------------------
(* quitGame and endGame *)

\* the forfeit without its `if (!game.winner)`
ForfeitOverwrites(game, userId) ==
    IF Key(game.players[1]) = Key(userId) THEN game.players[2] ELSE game.players[1]

\* if (!game.winner) game.winner = (p1 == userId) ? p2 : p1;
Forfeit(game, userId) ==
    IF game.winner # Null THEN game.winner
    ELSE IF Key(game.players[1]) = Key(userId) THEN game.players[2] ELSE game.players[1]

\* updateStats returns before its query when the user has no entry
StatsPending(users, players) == {i \in {1, 2} : Key(players[i]) \in DOMAIN users}

\* one endGame promise chain: the queries still out, and whether one was rejected
Chain(gameId, players, winner, pend, failed) ==
    [g |-> gameId, players |-> players, winner |-> winner, pend |-> pend, failed |-> failed]

\* the .then of endGame: inGame = false and gameEnded for the players with an entry
ReleasePlayers(users, players) ==
    [k \in DOMAIN users |->
        IF k \in {Key(players[1]), Key(players[2])}
        THEN [users[k] EXCEPT !.inGame = FALSE]
        ELSE users[k]]

GameEndedMsgs(users, players, winner) ==
    EmitToUsers(users, {players[1], players[2]}, "gameEnded", winner, 0, 0)

QuitGame(s, gameId, userId) ==
    /\ s \in connected
    /\ ev' = Event("quitGame", s, userId, 0, gameId, 0)
    /\ IF gameId \notin DOMAIN activeGames
       THEN /\ out' = {}
            /\ UNCHANGED <<activeGames, onlineUsers, endQ>>
       ELSE LET game == activeGames[gameId]
                winner == Forfeit(game, userId)
                pend == StatsPending(onlineUsers, game.players)
            IN IF pend = {}
               THEN \* both updateStats returned at once: the .then runs before the next event
                    /\ onlineUsers' = ReleasePlayers(onlineUsers, game.players)
                    /\ activeGames' = Remove(activeGames, gameId)
                    /\ out' = GameEndedMsgs(onlineUsers, game.players, winner)
                              \cup broadcastLobby(ReleasePlayers(onlineUsers, game.players))
                    /\ UNCHANGED endQ
               ELSE /\ BagCardinality(endQ) < MaxEndQ
                    /\ activeGames' = [activeGames EXCEPT ![gameId].winner = winner]
                    /\ endQ' = endQ (+) SetToBag({Chain(gameId, game.players, winner, pend, FALSE)})
                    /\ out' = {}
                    /\ UNCHANGED onlineUsers
    /\ replaced' = Null
    /\ UNCHANGED stale
    /\ UNCHANGED <<lastJoin, connected, closed, pendingChallenges, joinQ>>

\* the UPDATE of updateStats: games_count + 1, games_won + IF(isWinner), games_lost + IF(lostFlag)
StatsUpdate(userId, winner) ==
    LET isTie == winner = Tie
        isWinner == Key(userId) = Key(winner)
    IN Msg("dbUpdate", Key(userId), 1,
           IF isWinner THEN 1 ELSE 0,
           IF ~isWinner /\ ~isTie THEN 1 ELSE 0)

\* one query of updateStats is applied by the database
StatsCommit(e, i) ==
    /\ BagIn(e, endQ)
    /\ i \in e.pend
    /\ endQ' = (endQ (-) SetToBag({e})) (+) SetToBag({[e EXCEPT !.pend = e.pend \ {i}]})
    /\ ev' = Event("statsCommit", 0, e.players[i], e.winner, e.g, 0)
    /\ out' = {StatsUpdate(e.players[i], e.winner)}
    /\ replaced' = Null
    /\ UNCHANGED stale
    /\ UNCHANGED <<lastJoin, connected, closed, onlineUsers, pendingChallenges, activeGames, joinQ>>

\* one query of updateStats is rejected
StatsFail(e, i) ==
    /\ BagIn(e, endQ)
    /\ i \in e.pend
    /\ endQ' = (endQ (-) SetToBag({e}))
               (+) SetToBag({[e EXCEPT !.pend = e.pend \ {i}, !.failed = TRUE]})
    /\ ev' = Event("statsFail", 0, e.players[i], e.winner, e.g, 0)
    /\ out' = {}
    /\ replaced' = Null
    /\ UNCHANGED stale
    /\ UNCHANGED <<lastJoin, connected, closed, onlineUsers, pendingChallenges, activeGames, joinQ>>

\* Promise.all resolved: notify, release, delete the game, broadcast
EndGameThen(e) ==
    /\ BagIn(e, endQ)
    /\ e.pend = {}
    /\ ~e.failed
    /\ endQ' = endQ (-) SetToBag({e})
    /\ onlineUsers' = ReleasePlayers(onlineUsers, e.players)
    /\ activeGames' = Remove(activeGames, e.g)
    /\ ev' = Event("endGameThen", 0, e.players[1], e.players[2], e.g, 0)
    /\ out' = GameEndedMsgs(onlineUsers, e.players, e.winner)
              \cup broadcastLobby(ReleasePlayers(onlineUsers, e.players))
    /\ replaced' = Null
    /\ UNCHANGED stale
    /\ UNCHANGED <<lastJoin, connected, closed, pendingChallenges, joinQ>>

\* Promise.all rejected: the error is logged and nothing else happens
EndGameCatch(e) ==
    /\ BagIn(e, endQ)
    /\ e.pend = {}
    /\ e.failed
    /\ endQ' = endQ (-) SetToBag({e})
    /\ ev' = Event("endGameCatch", 0, e.players[1], e.players[2], e.g, 0)
    /\ out' = {}
    /\ replaced' = Null
    /\ UNCHANGED stale
    /\ UNCHANGED <<lastJoin, connected, closed, onlineUsers, pendingChallenges, activeGames, joinQ>>

---------------------------------------------------------------------------
(* disconnect *)

\* a join from another connection overwrote the entry of user u that held
\* connection s, and the entry of u still holds another connection
StaleFor(s, u) ==
    /\ <<s, u>> \in stale
    /\ u \in DOMAIN onlineUsers
    /\ onlineUsers[u].socketId # s

\* the least user in whose entry connection s was replaced, Null when none
StaleUser(s) ==
    IF \E u \in Users : StaleFor(s, u)
    THEN CHOOSE u \in Users : StaleFor(s, u) /\ \A v \in Users : StaleFor(s, v) => u <= v
    ELSE Null

\* find with a predicate every entry passes: the first entry, when there is one
FindBySocketAny(users, s) ==
    IF DOMAIN users = {} THEN Null ELSE CHOOSE k \in DOMAIN users : \A j \in DOMAIN users : k <= j

\* Object.values(onlineUsers).find(u => u.socketId === socket.id): integer keys
\* are visited in ascending order; Null when no entry has the socket
FindBySocket(users, s) ==
    LET hits == {k \in DOMAIN users : users[k].socketId = s}
    IN IF hits = {} THEN Null ELSE CHOOSE k \in hits : \A j \in hits : k <= j

Disconnect(s) ==
    /\ s \in connected
    /\ connected' = connected \ {s}
    /\ closed' = closed \cup {s}
    /\ LET userId == FindBySocket(onlineUsers, s)
       IN /\ ev' = Event("disconnect", s, userId, StaleUser(s), StaleGameId, 0)
          /\ IF userId = Null
             THEN /\ out' = {}
                  /\ UNCHANGED onlineUsers
             ELSE /\ onlineUsers' = Remove(onlineUsers, userId)
                  /\ out' = broadcastLobby(Remove(onlineUsers, userId))
    /\ replaced' = Null
    /\ stale' = {p \in stale : p[1] # s}
    /\ UNCHANGED <<lastJoin, pendingChallenges, activeGames, joinQ, endQ>>

---------------------------------------------------------------------------
(* The server with requestReplay: src/unnamed/part_004.  Its maps have the  *)
(* same names; pendingChallenges holds a queue per challenged key, and a    *)
(* game carries replayVotes once a vote was cast (the empty set before).    *)
(* Its handlers read onlineUsers[id].socketId without a check: for an id    *)
(* without an entry that is a TypeError nothing catches, which ends the      *)
(* process.                                                                  *)

\* the uncaught TypeError: the process exits, every connection closes and the
\* maps are gone; msgs were emitted before the throw
ProcessExit(msgs) ==
    /\ connected' = {}
    /\ closed' = closed \cup connected
    /\ onlineUsers' = << >>
    /\ pendingChallenges' = << >>
    /\ activeGames' = << >>
    /\ joinQ' = EmptyBag
    /\ endQ' = EmptyBag
    /\ out' = msgs
    /\ replaced' = Null
    /\ stale' = {}
    /\ UNCHANGED lastJoin

\* pendingChallenges[challengedId], [] when missing
PendingOf(challengedId) ==
    IF Key(challengedId) \in DOMAIN pendingChallenges
    THEN pendingChallenges[Key(challengedId)] ELSE << >>

ReplaySendChallenge(s, challengerId, challengedId) ==
    /\ s \in connected
    /\ Len(PendingOf(challengedId)) < MaxPending
    /\ ev' = Event("sendChallenge", s, challengerId, challengedId, StaleGameId, 0)
    /\ IF Key(challengedId) \notin DOMAIN onlineUsers
       THEN /\ out' = {Msg("errorMsg", s, 0, 0, 0)}
            /\ replaced' = Null
            /\ UNCHANGED stale
            /\ UNCHANGED <<lastJoin, connected, closed, onlineUsers, pendingChallenges,
                           activeGames, joinQ, endQ>>
       ELSE IF Key(challengerId) \notin DOMAIN onlineUsers
       THEN ProcessExit({})
       ELSE /\ pendingChallenges' = Put(pendingChallenges, Key(challengedId),
                                        Append(PendingOf(challengedId), challengerId))
            /\ out' = {Msg("challengeReceived", onlineUsers[Key(challengedId)].socketId,
                           challengerId, 0, 0)}
            /\ replaced' = Null
            /\ UNCHANGED stale
            /\ UNCHANGED <<lastJoin, connected, closed, onlineUsers, activeGames, joinQ, endQ>>

\* the game object acceptChallenge of part_004 creates
ReplayNewGame(challengerId, challengedId) ==
    [players |-> <<challengerId, challengedId>>,
     board |-> EmptyBoard,
     currentTurn |-> challengerId,
     winner |-> Null,
     replayVotes |-> {}]

ReplayAcceptChallenge(s, challengedId, now) ==
    /\ s \in connected
    /\ IF PendingOf(challengedId) = << >>
       THEN /\ ev' = Event("acceptChallenge", s, challengedId, 0, StaleGameId, 0)
            /\ out' = {Msg("errorMsg", s, 0, 0, 0)}
            /\ replaced' = Null
            /\ UNCHANGED stale
            /\ UNCHANGED <<lastJoin, connected, closed, onlineUsers, pendingChallenges,
                           activeGames, joinQ, endQ>>
       ELSE LET challengerId == Head(PendingOf(challengedId))
                gameId == GameId(now, challengerId, challengedId)
                users == MarkInGame(onlineUsers, challengerId, challengedId)
            IN /\ ev' = Event("acceptChallenge", s, challengedId, challengerId, gameId, 0)
               /\ IF Key(challengerId) \notin DOMAIN onlineUsers
                  THEN ProcessExit({})
                  ELSE IF Key(challengedId) \notin DOMAIN onlineUsers
                  THEN ProcessExit(EmitToUsers(onlineUsers, {challengerId}, "gameStarted",
                                               challengedId, 0, 0))
                  ELSE /\ pendingChallenges' = Put(pendingChallenges, Key(challengedId),
                                                   Tail(PendingOf(challengedId)))
                       /\ activeGames' = Put(activeGames, gameId,
                                             ReplayNewGame(challengerId, challengedId))
                       /\ onlineUsers' = users
                       /\ out' = EmitToUsers(users, {challengerId}, "gameStarted", challengedId, 0, 0)
                                 \cup EmitToUsers(users, {challengedId}, "gameStarted", challengerId, 0, 0)
                                 \cup broadcastLobby(users)
                       /\ replaced' = Null
                       /\ UNCHANGED stale
                       /\ UNCHANGED <<lastJoin, connected, closed, joinQ, endQ>>

\* io.to(onlineUsers[players[0]].socketId).emit('updateGame', game), then the
\* same for players[1]: reading .socketId of a missing entry throws
UpdateThrows(game) ==
    \/ Key(game.players[1]) \notin DOMAIN onlineUsers
    \/ Key(game.players[2]) \notin DOMAIN onlineUsers

\* the updateGame messages sent: none when the first read throws
UpdateMsgs(game) ==
    IF Key(game.players[1]) \notin DOMAIN onlineUsers THEN {}
    ELSE EmitToUsers(onlineUsers, {game.players[1], game.players[2]}, "updateGame", 0, 0, 0)

\* if (!game || game.currentTurn !== userId || game.board[cellIndex]) return;
ReplayMoveRejected(game, userId, cellIndex) ==
    \/ game.currentTurn # userId
    \/ game.board[cellIndex] # "E"

\* game.players.find(pid => pid !== userId), undefined when there is none
FindOther(players, userId) ==
    IF players[1] # userId THEN players[1]
    ELSE IF players[2] # userId THEN players[2]
    ELSE Null

\* the mark and the turn switch of part_004; it evaluates no outcome
ReplayApplyMove(game, userId, cellIndex) ==
    [game EXCEPT !.board[cellIndex] = IF userId = game.players[1] THEN "X" ELSE "O",
                 !.currentTurn = FindOther(game.players, userId)]

ReplayMakeMove(s, gameId, userId, cellIndex) ==
    /\ s \in connected
    /\ ev' = Event("makeMove", s, userId, 0, gameId, cellIndex)
    /\ IF \/ gameId \notin DOMAIN activeGames
          \/ ReplayMoveRejected(activeGames[gameId], userId, cellIndex)
       THEN /\ out' = {}
            /\ replaced' = Null
            /\ UNCHANGED stale
            /\ UNCHANGED <<lastJoin, connected, closed, onlineUsers, pendingChallenges,
                           activeGames, joinQ, endQ>>
       ELSE IF UpdateThrows(activeGames[gameId])
       THEN ProcessExit(UpdateMsgs(activeGames[gameId]))
       ELSE /\ activeGames' = [activeGames EXCEPT
                                 ![gameId] = ReplayApplyMove(activeGames[gameId], userId, cellIndex)]
            /\ out' = UpdateMsgs(activeGames[gameId])
            /\ replaced' = Null
            /\ UNCHANGED stale
            /\ UNCHANGED <<lastJoin, connected, closed, onlineUsers, pendingChallenges, joinQ, endQ>>

\* delete activeGames[gameId]; io.emit('onlinePlayers', ...)
ReplayQuitGame(s, gameId, userId) ==
    /\ s \in connected
    /\ ev' = Event("quitGame", s, userId, 0, gameId, 0)
    /\ activeGames' = Remove(activeGames, gameId)
    /\ out' = broadcastLobby(onlineUsers)
    /\ replaced' = Null
    /\ UNCHANGED stale
    /\ UNCHANGED <<lastJoin, connected, closed, onlineUsers, pendingChallenges, joinQ, endQ>>

\* board = Array(9).fill(null); winner = null; currentTurn = players[0]
ReplayReset(game) ==
    [game EXCEPT !.board = EmptyBoard, !.winner = Null, !.currentTurn = game.players[1]]

\* game.replayVotes[userId] = true
CastVote(game, userId) == [game EXCEPT !.replayVotes = game.replayVotes \cup {Key(userId)}]

\* replayVotes[players[0]] && replayVotes[players[1]]
BothVoted(game) ==
    /\ Key(game.players[1]) \in game.replayVotes
    /\ Key(game.players[2]) \in game.replayVotes

RequestReplay(s, gameId, userId) ==
    /\ s \in connected
    /\ ev' = Event("requestReplay", s, userId, 0, gameId, 0)
    /\ IF gameId \notin DOMAIN activeGames
       THEN /\ out' = {}
            /\ replaced' = Null
            /\ UNCHANGED stale
            /\ UNCHANGED <<lastJoin, connected, closed, onlineUsers, pendingChallenges,
                           activeGames, joinQ, endQ>>
       ELSE LET voted == CastVote(activeGames[gameId], userId)
            IN IF ~BothVoted(voted)
               THEN /\ activeGames' = [activeGames EXCEPT ![gameId] = voted]
                    /\ out' = {}
                    /\ replaced' = Null
                    /\ UNCHANGED stale
                    /\ UNCHANGED <<lastJoin, connected, closed, onlineUsers, pendingChallenges,
                                   joinQ, endQ>>
               ELSE IF UpdateThrows(voted)
               THEN ProcessExit(UpdateMsgs(voted))
               ELSE /\ activeGames' = [activeGames EXCEPT ![gameId] = ReplayReset(voted)]
                    /\ out' = UpdateMsgs(voted)
                    /\ replaced' = Null
                    /\ UNCHANGED stale
                    /\ UNCHANGED <<lastJoin, connected, closed, onlineUsers, pendingChallenges,
                                   joinQ, endQ>>

\* Object.keys(onlineUsers).find(id => onlineUsers[id].socketId === socket.id)
ReplayDisconnect(s) ==
    /\ s \in connected
    /\ connected' = connected \ {s}
    /\ closed' = closed \cup {s}
    /\ LET userId == FindBySocket(onlineUsers, s)
       IN /\ ev' = Event("disconnect", s, userId, 0, StaleGameId, 0)
          /\ IF userId = Null
             THEN /\ out' = {}
                  /\ UNCHANGED onlineUsers
             ELSE /\ onlineUsers' = Remove(onlineUsers, userId)
                  /\ out' = broadcastLobby(Remove(onlineUsers, userId))
    /\ replaced' = Null
    /\ stale' = {p \in stale : p[1] # s}
    /\ UNCHANGED <<lastJoin, pendingChallenges, activeGames, joinQ, endQ>>

---------------------------------------------------------------------------
(* Specifications *)

Stamps == 0 .. MaxStamp
Chains == BagToSet(endQ)
Participants(gameId) == {gameId[2], gameId[3]}

\* Spec: the lobby.  Three users, user u on connection u, numeric ids.  Each
\* client sends its own id; user 1 challenges 2 and 3, user 3 challenges 2;
\* connection 1 may close.  The board is played in SpecGame.
LobbyPairs == {<<1, 2>>, <<1, 3>>, <<3, 2>>}

Next ==
    \/ \E s \in Sockets : Connect(s)
    \/ \E s \in {1} : Disconnect(s)
    \/ \E s \in Sockets : JoinLobby(s, s)
    \/ \E s \in Sockets : JoinLobbyFound(s, s)
    \/ \E p \in LobbyPairs : SendChallenge(p[1], p[1], p[2])
    \/ \E b \in {2, 3}, now \in Stamps : AcceptChallenge(b, b, now)
    \/ \E b \in {2, 3} : RefuseChallenge(b, b)
    \/ \E g \in DOMAIN activeGames : \E u \in Participants(g) : QuitGame(u, g, u)
    \/ \E e \in Chains, i \in {1, 2} : StatsCommit(e, i)
    \/ \E e \in Chains : EndGameThen(e)

Spec == Init /\ [][Next]_vars

\* SpecGame: one pair of players at the board.  Users 1 and 2 have joined on
\* connections 1 and 2; user 1 challenges user 2 and the two send moves for
\* every cell, in and out of turn.
InitGame ==
    /\ connected = {1, 2}
    /\ closed = {}
    /\ onlineUsers = [u \in {1, 2} |-> Entry(u)]
    /\ pendingChallenges = << >>
    /\ activeGames = << >>
    /\ joinQ = EmptyBag
    /\ lastJoin = [u \in {1, 2} |-> u]
    /\ stale = {}
    /\ replaced = Null
    /\ endQ = EmptyBag
    /\ ev = NoEvent
    /\ out = {}

NextGame ==
    \/ SendChallenge(1, 1, 2)
    \/ \E now \in Stamps : AcceptChallenge(2, 2, now)
    \/ \E g \in DOMAIN activeGames, u \in {1, 2}, c \in Cells : MakeMove(u, g, u, c)

SpecGame == InitGame /\ [][NextGame]_vars

\* SpecQuit: the same pair, with quitGame and endGame.  The player whose turn
\* it is sends moves that name one of the two lowest free cells (which reaches
\* wins of either player and ties), also after the outcome is set; either
\* player may quit at any time, and endGame runs to completion.
FreeCells(board) == {c \in Cells : board[c] = "E"}
LowCells(board) == {c \in Cells : Cardinality({d \in FreeCells(board) : d < c}) < 2}

NextQuit ==
    \/ SendChallenge(1, 1, 2)
    \/ AcceptChallenge(2, 2, 0)
    \/ \E g \in DOMAIN activeGames : \E c \in LowCells(activeGames[g].board) :
            MakeMove(activeGames[g].currentTurn, g, activeGames[g].currentTurn, c)
    \/ \E g \in DOMAIN activeGames, u \in {1, 2} : QuitGame(u, g, u)
    \/ \E e \in Chains, i \in {1, 2} : StatsCommit(e, i)
    \/ \E e \in Chains : EndGameThen(e)

SpecQuit == InitGame /\ [][NextQuit]_vars

\* SpecFail: SpecQuit with a database that may reject an UPDATE.  Every query
\* that was sent is answered (applied or rejected), and a settled Promise.all
\* runs its .then or its .catch; what the clients send is up to them.
NextFail ==
    \/ SendChallenge(1, 1, 2)
    \/ AcceptChallenge(2, 2, 0)
    \/ \E g \in DOMAIN activeGames : \E c \in LowCells(activeGames[g].board) :
            MakeMove(activeGames[g].currentTurn, g, activeGames[g].currentTurn, c)
    \/ \E g \in DOMAIN activeGames, u \in {1, 2} : QuitGame(u, g, u)
    \/ \E e \in Chains, i \in {1, 2} : StatsCommit(e, i)
    \/ \E e \in Chains, i \in {1, 2} : StatsFail(e, i)
    \/ \E e \in Chains : EndGameThen(e)
    \/ \E e \in Chains : EndGameCatch(e)

QueryAnswered == \E e \in Chains, i \in {1, 2} : StatsCommit(e, i) \/ StatsFail(e, i)
ChainSettled == \E e \in Chains : EndGameThen(e) \/ EndGameCatch(e)

SpecFail == InitGame /\ [][NextFail]_vars /\ WF_vars(QueryAnswered) /\ WF_vars(ChainSettled)

\* SpecEdge: the same pair with the ids as the pages send them (strings read
\* from the URL) beside numbers, and cell indices outside the board.
EdgeCells == {0, 1, 2} \cup OutOfRange
EdgeIds == {1, 2, Str(1), Str(2)}

NextEdge ==
    \/ SendChallenge(1, Str(1), 2)
    \/ \E now \in Stamps : AcceptChallenge(2, Str(2), now)
    \/ \E g \in DOMAIN activeGames, u \in EdgeIds, c \in EdgeCells : MakeMove(Key(u), g, u, c)

SpecEdge == InitGame /\ [][NextEdge]_vars

\* SpecReplay: the server of part_004 with users 1 and 2 in the lobby.  User 1
\* challenges user 2; the player whose turn it is marks one of the two lowest
\* free cells; either player, and connection 1 under the id of user 3, asks
\* for a replay; either player quits; either connection may close.
ReplayGames == {GameId(now, 1, 2) : now \in Stamps}

NextReplay ==
    \/ ReplaySendChallenge(1, 1, 2)
    \/ \E now \in Stamps : ReplayAcceptChallenge(2, 2, now)
    \/ \E g \in DOMAIN activeGames : \E c \in LowCells(activeGames[g].board) :
            ReplayMakeMove(activeGames[g].currentTurn, g, activeGames[g].currentTurn, c)
    \/ \E g \in ReplayGames, u \in {1, 2} : RequestReplay(u, g, u)
    \/ \E g \in ReplayGames : RequestReplay(1, g, 3)
    \/ \E g \in ReplayGames, u \in {1, 2} : ReplayQuitGame(u, g, u)
    \/ \E s \in {1, 2} : ReplayDisconnect(s)

SpecReplay == InitGame /\ [][NextReplay]_vars

\* SpecJoin: the presence registry alone.  Connections 1 and 2 open, send
\* joinLobby for user 1, user 2 or an id without a row, any number of times,
\* and close; every lookup is answered, in any order.
JoinIds == {1, 2, UnknownUser}

NextJoin ==
    \/ \E s \in {1, 2} : Connect(s)
    \/ \E s \in {1, 2} : Disconnect(s)
    \/ \E s \in {1, 2}, u \in JoinIds : JoinLobby(s, u)
    \/ \E s \in {1, 2}, u \in JoinIds : JoinLobbyFound(s, u)
    \/ \E s \in {1, 2}, u \in JoinIds : JoinLobbyNotFound(s, u)

SpecJoin == Init /\ [][NextJoin]_vars

\* SpecChallenge: the challenge table.  Users 1 and 2 are in the lobby, user 3
\* is not; either connection sends challenges between any two of the ids (the
\* id of user 2 also as a string), and users 1 and 2 accept and refuse.
ChallengeIds == {1, 2, 3, Str(2)}

NextChallenge ==
    \/ \E s \in {1, 2}, a \in ChallengeIds, b \in ChallengeIds : SendChallenge(s, a, b)
    \/ \E b \in {1, 2} : AcceptChallenge(b, b, 0)
    \/ \E b \in {1, 2} : RefuseChallenge(b, b)

SpecChallenge == InitGame /\ [][NextChallenge]_vars

\* challenges between two users whose connections may close while a
\* challenge is stored
NextDepart ==
    \/ \E s \in {1, 2}, a \in {1, 2}, b \in {1, 2} : SendChallenge(s, a, b)
    \/ \E b \in {1, 2} : AcceptChallenge(b, b, 0)
    \/ \E b \in {1, 2} : RefuseChallenge(b, b)
    \/ \E s \in {1, 2} : Disconnect(s)

SpecDepart == InitGame /\ [][NextDepart]_vars

\* every handler of src/server.js that writes the registry, for two
\* connections and two users, from the empty server
\* one session between users 1 and 2 whose connections may close during it
NextSession ==
    \/ SendChallenge(1, 1, 2)
    \/ AcceptChallenge(2, 2, 0)
    \/ \E g \in DOMAIN activeGames : \E c \in LowCells(activeGames[g].board) :
            MakeMove(activeGames[g].currentTurn, g, activeGames[g].currentTurn, c)
    \/ \E g \in DOMAIN activeGames, u \in {1, 2} : QuitGame(u, g, u)
    \/ \E e \in Chains, i \in {1, 2} : StatsCommit(e, i)
    \/ \E e \in Chains : EndGameThen(e)
    \/ \E s \in {1, 2} : Disconnect(s)

SpecSession == InitGame /\ [][NextSession]_vars

\* three users in the lobby, each on its own connection
InitTrio ==
    /\ connected = {1, 2, 3}
    /\ closed = {}
    /\ onlineUsers = [u \in {1, 2, 3} |-> Entry(u)]
    /\ pendingChallenges = << >>
    /\ activeGames = << >>
    /\ joinQ = EmptyBag
    /\ lastJoin = [u \in {1, 2, 3} |-> u]
    /\ stale = {}
    /\ replaced = Null
    /\ endQ = EmptyBag
    /\ ev = NoEvent
    /\ out = {}

PairGames == {GameId(0, 1, 2), GameId(0, 1, 3)}
FirstFree(board) == {c \in FreeCells(board) : \A d \in FreeCells(board) : c <= d}

\* user 1 in a session with user 2 and in a session with user 3 at once;
\* messages name live sessions and sessions that are not in the map
NextPair ==
    \/ \E b \in {2, 3} : SendChallenge(1, 1, b)
    \/ \E b \in {2, 3} : AcceptChallenge(b, b, 0)
    \/ \E g \in DOMAIN activeGames : \E c \in FirstFree(activeGames[g].board) :
            MakeMove(activeGames[g].currentTurn, g, activeGames[g].currentTurn, c)
    \/ \E g \in PairGames \ DOMAIN activeGames : MakeMove(1, g, 1, 0)
    \/ \E g \in DOMAIN activeGames : \E u \in Participants(g) : QuitGame(u, g, u)
    \/ \E g \in PairGames \ DOMAIN activeGames : QuitGame(1, g, 1)
    \/ \E e \in Chains, i \in {1, 2} : StatsCommit(e, i)
    \/ \E e \in Chains : EndGameThen(e)

SpecPair == InitTrio /\ [][NextPair]_vars

\* part_004: users 1 and 2 challenge user 3, whose queue is consumed by
\* acceptChallenge, while connections may close
NextQueue ==
    \/ \E a \in {1, 2} : ReplaySendChallenge(a, a, 3)
    \/ ReplayAcceptChallenge(3, 3, 0)
    \/ \E s \in {1, 2, 3} : ReplayDisconnect(s)

SpecQueue == InitTrio /\ [][NextQueue]_vars

\* three users in the lobby; every connection may send acceptChallenge,
\* refuseChallenge, makeMove and quitGame with any of the three user ids
NextForge ==
    \/ SendChallenge(1, 1, 2)
    \/ \E s \in {1, 2, 3} : AcceptChallenge(s, 2, 0)
    \/ \E s \in {1, 2, 3} : RefuseChallenge(s, 2)
    \/ \E g \in DOMAIN activeGames : \E s \in {1, 2, 3}, u \in {1, 2, 3} :
            \E c \in FirstFree(activeGames[g].board) : MakeMove(s, g, u, c)
    \/ \E g \in DOMAIN activeGames : \E s \in {1, 2, 3}, u \in {1, 2, 3} : QuitGame(s, g, u)
    \/ \E e \in Chains, i \in {1, 2} : StatsCommit(e, i)
    \/ \E e \in Chains : EndGameThen(e)

SpecForge == InitTrio /\ [][NextForge]_vars

PresenceJoins == {<<1, 1>>, <<2, 2>>, <<2, 1>>}     \* <<socket, userId>>

NextPresence ==
    \/ \E s \in {1, 2} : Connect(s)
    \/ \E s \in {1, 2} : Disconnect(s)
    \/ \E j \in PresenceJoins : JoinLobby(j[1], j[2])
    \/ \E j \in PresenceJoins : JoinLobbyFound(j[1], j[2])
    \/ SendChallenge(1, 1, 2)
    \/ AcceptChallenge(2, 2, 0)
    \/ \E g \in DOMAIN activeGames : QuitGame(1, g, 1)
    \/ \E e \in Chains, i \in {1, 2} : StatsCommit(e, i)
    \/ \E e \in Chains : EndGameThen(e)

SpecPresence == Init /\ [][NextPresence]_vars

---------------------------------------------------------------------------
(* Properties *)

PlayerKeys(game) == {Key(game.players[1]), Key(game.players[2])}
OtherPlayer(game, u) == IF Key(game.players[1]) = u THEN game.players[2] ELSE game.players[1]
InSomeSession(u) == \E g \in DOMAIN activeGames : u \in PlayerKeys(activeGames[g])
InProgress(g) == g \in DOMAIN activeGames /\ activeGames[g].winner = Null

\* C1: for every user with a PresenceEntry, inGame is true if and only if the
\* user is a participant of some GameSession in the session map.
C1_OccupiedIffInSession ==
    \A u \in DOMAIN onlineUsers : onlineUsers[u].inGame <=> InSomeSession(u)

\* C2: when the connection of a participant of a session with unset outcome
\* closes, the disconnected user's entry is removed and the session, as long as
\* it is held, has the other participant as its outcome (the forfeit that the
\* gameEnded notification would report).
C2_DisconnectForfeits ==
    [][(ev'.op = "disconnect" /\ ev'.a # Null) =>
        \A g \in DOMAIN activeGames :
            (ev'.a \in PlayerKeys(activeGames[g]) /\ activeGames[g].winner = Null) =>
                /\ ev'.a \notin DOMAIN onlineUsers'
                /\ g \in DOMAIN activeGames' =>
                       activeGames'[g].winner = OtherPlayer(activeGames[g], ev'.a)]_vars

\* C3: no user id is a participant of two live GameSessions at the same time.
C3_OneSessionPerUser ==
    \A g1 \in DOMAIN activeGames : \A g2 \in DOMAIN activeGames :
        g1 # g2 => PlayerKeys(activeGames[g1]) \cap PlayerKeys(activeGames[g2]) = {}

\* C4: a successful acceptChallenge leaves both participants occupied, and
\* while that session is in progress a sendChallenge from a third user naming
\* either participant stores no Challenge and delivers no challengeReceived.
C4_ParticipantsNotChallengeable ==
    [][/\ (ev'.op = "acceptChallenge" /\ ev'.g # StaleGameId) =>
            \A u \in PlayerKeys(activeGames'[ev'.g]) \cap DOMAIN onlineUsers' :
                onlineUsers'[u].inGame
       /\ \A g \in DOMAIN activeGames :
            (/\ InProgress(g)
             /\ ev'.op = "sendChallenge"
             /\ Key(ev'.b) \in PlayerKeys(activeGames[g])
             /\ Key(ev'.a) \notin PlayerKeys(activeGames[g])) =>
                /\ pendingChallenges' = pendingChallenges
                /\ \A m \in out' : m.type # "challengeReceived"]_vars

\* rows, columns and diagonals, as sets of cells
RefLines == {{0, 1, 2}, {3, 4, 5}, {6, 7, 8},
             {0, 3, 6}, {1, 4, 7}, {2, 5, 8},
             {0, 4, 8}, {2, 4, 6}}
Owns(board, mark) == \E l \in RefLines : \A c \in l : board[c] = mark
Filled(board) == {c \in Cells : board[c] # "E"}
Marked(board) == {k \in BoardKeys : board[k] # "E"}
Finished(board) == Owns(board, "X") \/ Owns(board, "O") \/ Cardinality(Filled(board)) = 9

\* C5: a makeMove on an existing session that is out of turn, names a marked
\* cell, or arrives after the outcome is set leaves the session (board,
\* currentTurn, outcome) and every other session as it was.
C5_RejectedMoveChangesNothing ==
    [][(/\ ev'.op = "makeMove"
        /\ ev'.g \in DOMAIN activeGames
        /\ \/ activeGames[ev'.g].currentTurn # ev'.a
           \/ activeGames[ev'.g].board[ev'.cell] # "E"
           \/ activeGames[ev'.g].winner # Null) =>
            activeGames' = activeGames]_vars

\* a move out of turn on a marked cell of a session in progress was dropped
C5_Witness ==
    /\ ev.op = "makeMove"
    /\ InProgress(ev.g)
    /\ activeGames[ev.g].currentTurn # ev.a
    /\ activeGames[ev.g].board[ev.cell] = "X"
    /\ Cardinality(Filled(activeGames[ev.g].board)) = 2
    /\ out = {}

\* C6: a makeMove with cellIndex outside 0..8, sent by the player whose turn
\* it is on a session in progress, leaves the board (9 cells, same contents)
\* and currentTurn as they were.
C6_OutOfRangeMoveChangesNothing ==
    [][(/\ ev'.op = "makeMove"
        /\ InProgress(ev'.g)
        /\ ev'.cell \notin Cells
        /\ activeGames[ev'.g].currentTurn = ev'.a) =>
            /\ activeGames'[ev'.g].board = activeGames[ev'.g].board
            /\ BoardLength(activeGames'[ev'.g].board) = 9
            /\ activeGames'[ev'.g].currentTurn = activeGames[ev'.g].currentTurn]_vars

\* C7: a session played with valid moves only (every mark on one of the 9
\* cells) has taken at most 9 moves, and once it has taken 9 its outcome is
\* Won(p1), Won(p2) or Tied: no session in progress has a full board.
C7_EndsWithinNineMoves ==
    \A g \in DOMAIN activeGames :
        LET game == activeGames[g]
        IN Marked(game.board) \subseteq Cells =>
              /\ Cardinality(Marked(game.board)) <= 9
              /\ game.winner \in {Null, Tie, game.players[1], game.players[2]}
              /\ Cardinality(Marked(game.board)) = 9 =>
                    game.winner \in {Tie, game.players[1], game.players[2]}

\* the ninth move of a session has just been accepted
C7_Witness ==
    /\ ev.op = "makeMove"
    /\ ev.g \in DOMAIN activeGames
    /\ Cardinality(Marked(activeGames[ev.g].board)) = 9
    /\ out # {}

\* C8: once the outcome of a session is set, a makeMove or quitGame that leaves
\* the session in the map leaves its outcome as it was.
C8_OutcomeNeverFlips ==
    [][\A g \in DOMAIN activeGames :
          (/\ activeGames[g].winner # Null
           /\ ev'.op \in {"makeMove", "quitGame"}
           /\ g \in DOMAIN activeGames') =>
              activeGames'[g].winner = activeGames[g].winner]_vars

\* the player who won on the board has quit, and the session is still held
C8_Witness ==
    /\ ev.op = "quitGame"
    /\ ev.g \in DOMAIN activeGames
    /\ Owns(activeGames[ev.g].board, "X")
    /\ Key(ev.a) = Key(activeGames[ev.g].players[1])

\* C9: after an accepted move the outcome is the owner of the mark that owns a
\* triple (X the first participant, O the second), else Tied when the 9 cells
\* are filled, else unset.
C9_OutcomeMatchesReference ==
    [][(/\ ev'.op = "makeMove"
        /\ ev'.g \in DOMAIN activeGames
        /\ activeGames' # activeGames) =>
            LET game == activeGames'[ev'.g]
            IN /\ Owns(game.board, "X") => game.winner = game.players[1]
               /\ Owns(game.board, "O") => game.winner = game.players[2]
               /\ (~Owns(game.board, "X") /\ ~Owns(game.board, "O")) =>
                     game.winner = IF Cardinality(Filled(game.board)) = 9 THEN Tie ELSE Null]_vars

\* a move has just completed a column or a diagonal for O
C9_Witness ==
    /\ ev.op = "makeMove"
    /\ ev.g \in DOMAIN activeGames
    /\ out # {}
    /\ \E l \in RefLines \ {{0, 1, 2}, {3, 4, 5}, {6, 7, 8}} :
            \A c \in l : activeGames[ev.g].board[c] = "O"

\* C10 as stated: in every live session the outcome is unset if and only if
\* fewer than 9 cells are filled and no triple is owned.
C10_UnsetIffUnfinished ==
    \A g \in DOMAIN activeGames :
        activeGames[g].winner = Null <=> ~Finished(activeGames[g].board)

\* C10 as amended: the outcome is unset only on an unfinished board, the outcome
\* of a finished board is set, and an outcome set on an unfinished board is a
\* participant's id that a quitGame step wrote.
C10_UnsetIffUnfinishedOrForfeit ==
    /\ [](\A g \in DOMAIN activeGames :
            LET game == activeGames[g]
            IN /\ game.winner = Null => ~Finished(game.board)
               /\ (game.winner # Null /\ ~Finished(game.board)) =>
                     game.winner \in {game.players[1], game.players[2]})
    /\ [][\A g \in DOMAIN activeGames' :
            (/\ activeGames'[g].winner # Null
             /\ ~Finished(activeGames'[g].board)
             /\ (g \notin DOMAIN activeGames \/ activeGames[g].winner = Null)) =>
                 /\ ev'.op = "quitGame"
                 /\ ev'.g = g
                 /\ activeGames'[g].winner = OtherPlayer(activeGames'[g], Key(ev'.a))]_vars

\* a session forfeited after two moves is held while endGame waits
C10_Witness ==
    /\ ev.op = "quitGame"
    /\ ev.g \in DOMAIN activeGames
    /\ activeGames[ev.g].winner = activeGames[ev.g].players[2]
    /\ ~Finished(activeGames[ev.g].board)
    /\ Cardinality(Filled(activeGames[ev.g].board)) = 2

\* C11: when a session is reconciled (endGame runs on it), an UPDATE is issued
\* for each of its two participants, and each UPDATE adds 1 to played, 1 to won
\* exactly for the participant the outcome names, and 1 to lost exactly for the
\* other participant of a won session (nothing but played when Tied).
C11_StatsDeltas ==
    [][/\ (ev'.op = "quitGame" /\ ev'.g \in DOMAIN activeGames) =>
            \E e \in BagToSet(endQ') :
                /\ e.g = ev'.g
                /\ e.pend = {1, 2}
                /\ CopiesIn(e, endQ') > CopiesIn(e, endQ)
       /\ ev'.op = "statsCommit" =>
            out' = {Msg("dbUpdate", Key(ev'.a), 1,
                        IF ev'.b # Tie /\ Key(ev'.a) = Key(ev'.b) THEN 1 ELSE 0,
                        IF ev'.b # Tie /\ Key(ev'.a) # Key(ev'.b) THEN 1 ELSE 0)}]_vars

\* the number of endGame chains in flight for session g
ChainCount(q, g) ==
    BagCardinality([e \in {x \in BagToSet(q) : x.g = g} |-> CopiesIn(e, q)])

\* C12: the step that sets the outcome of a session (a winning or tying move, a
\* forfeit) starts exactly one reconciliation of it, and no step starts one for
\* a session whose outcome was already set.
C12_ReconciledOnceAtTermination ==
    [][\A g \in DOMAIN activeGames :
          /\ (/\ activeGames[g].winner = Null
              /\ g \in DOMAIN activeGames'
              /\ activeGames'[g].winner # Null) =>
                  ChainCount(endQ', g) = ChainCount(endQ, g) + 1
          /\ activeGames[g].winner # Null =>
                  ChainCount(endQ', g) <= ChainCount(endQ, g)]_vars

\* C13: when a commit of a reconciliation has failed, the session is still torn
\* down: a step follows that leaves it out of the session map with no
\* participant occupied, both participants notified of the game end and the
\* registry broadcast.
C13_FailedCommitStillTearsDown ==
    (\E e \in Chains : e.failed) ~>
        (/\ activeGames = << >>
         /\ \A u \in DOMAIN onlineUsers : ~onlineUsers[u].inGame
         /\ \A u \in DOMAIN onlineUsers :
                \E m \in out : m.type = "gameEnded" /\ m.to = onlineUsers[u].socketId
         /\ broadcastLobby(onlineUsers) \subseteq out)

\* C14: when a requestReplay on a session with a finished board makes both
\* participants have asked for the rematch, the session is in the map under
\* the same id with the same participants, an all-empty board and no outcome,
\* and updateGame goes to the connection of each participant.
C14_RematchResets ==
    [][(/\ ev'.op = "requestReplay"
        /\ ev'.g \in DOMAIN activeGames
        /\ Finished(activeGames[ev'.g].board)
        /\ PlayerKeys(activeGames[ev'.g]) \subseteq
                activeGames[ev'.g].replayVotes \cup {Key(ev'.a)}) =>
            /\ ev'.g \in DOMAIN activeGames'
            /\ activeGames'[ev'.g].players = activeGames[ev'.g].players
            /\ activeGames'[ev'.g].board = EmptyBoard
            /\ activeGames'[ev'.g].winner = Null
            /\ \A u \in PlayerKeys(activeGames[ev'.g]) \cap DOMAIN onlineUsers :
                    Msg("updateGame", onlineUsers[u].socketId, 0, 0, 0) \in out']_vars

\* C15: when one participant has asked for a rematch and the other refuses (the
\* only refusal the server has is quitGame), the session stays in the map with
\* its board and outcome as they were and an empty vote set, and the requester
\* is notified of the refusal.
C15_RefusalClearsVotes ==
    [][(/\ ev'.op = "quitGame"
        /\ ev'.g \in DOMAIN activeGames
        /\ Key(ev'.a) \in PlayerKeys(activeGames[ev'.g])
        /\ activeGames[ev'.g].replayVotes = PlayerKeys(activeGames[ev'.g]) \ {Key(ev'.a)}) =>
            /\ ev'.g \in DOMAIN activeGames'
            /\ activeGames'[ev'.g].replayVotes = {}
            /\ activeGames'[ev'.g].board = activeGames[ev'.g].board
            /\ activeGames'[ev'.g].winner = activeGames[ev'.g].winner
            /\ \E m \in out' :
                    /\ m.type = "replayRefused"
                    /\ \E u \in activeGames[ev'.g].replayVotes \cap DOMAIN onlineUsers :
                            m.to = onlineUsers[u].socketId]_vars

\* C16: the vote set of every session holds only ids of its two participants
\* and never both of them once the step that completed it is over; so a
\* requestReplay resets a board only when, before it, the vote set held the
\* other participant and not the sender.
C16_VotesClearedWhenFull ==
    /\ [](\A g \in DOMAIN activeGames :
            /\ activeGames[g].replayVotes \subseteq PlayerKeys(activeGames[g])
            /\ activeGames[g].replayVotes # PlayerKeys(activeGames[g]))
    /\ [][(/\ ev'.op = "requestReplay"
            /\ ev'.g \in DOMAIN activeGames
            /\ ev'.g \in DOMAIN activeGames'
            /\ activeGames[ev'.g].board # EmptyBoard
            /\ activeGames'[ev'.g].board = EmptyBoard) =>
                activeGames[ev'.g].replayVotes =
                    PlayerKeys(activeGames[ev'.g]) \ {Key(ev'.a)}]_vars

\* C17: a disconnect of a connection that no PresenceEntry refers to leaves the
\* registry, the challenge table and the session map as they were and emits
\* nothing.
C17_LeaveIdempotent ==
    [][(/\ ev'.op = "disconnect"
        /\ \A u \in DOMAIN onlineUsers : onlineUsers[u].socketId # ev'.sock) =>
            /\ onlineUsers' = onlineUsers
            /\ pendingChallenges' = pendingChallenges
            /\ activeGames' = activeGames
            /\ out' = {}]_vars

\* connection 1 closed without an entry while user 1 is present on connection 2
C17_Witness ==
    /\ ev.op = "disconnect"
    /\ ev.sock = 1
    /\ out = {}
    /\ 1 \in DOMAIN onlineUsers
    /\ onlineUsers[1].socketId = 2

\* C18: the connection handle of every PresenceEntry is an open connection.
C18_EntriesReferToOpenConnections ==
    \A u \in DOMAIN onlineUsers : onlineUsers[u].socketId \in connected

\* the lookups in flight for user u
InFlightFor(u) == {j \in BagToSet(joinQ) : Resolve(j[2]) = u}

\* C19: once the latest joinLobby sent for a user has completed and the entry
\* holds its connection, the completion of a joinLobby that was sent earlier
\* leaves that handle in the entry.
C19_LastConnectionWins ==
    [][(/\ ev'.op = "joinLobbyFound"
        /\ Resolve(ev'.a) \in DOMAIN onlineUsers
        /\ onlineUsers[Resolve(ev'.a)].socketId = lastJoin[Resolve(ev'.a)]
        /\ \A j \in InFlightFor(Resolve(ev'.a)) : j[1] # lastJoin[Resolve(ev'.a)]) =>
            onlineUsers'[Resolve(ev'.a)].socketId = lastJoin[Resolve(ev'.a)]]_vars

\* C20: a sendChallenge whose challenger or challenged has no PresenceEntry, or
\* whose challenged is occupied, sends errorMsg to the sender, leaves the
\* challenge table as it was and emits no challengeReceived; any other
\* sendChallenge stores the challenger under the challenged id, leaves the
\* other challenges alone and emits one challengeReceived, carrying the
\* challenger's id, to the challenged user's connection only.
C20_SendChallengeOutcome ==
    [][ev'.op = "sendChallenge" =>
        IF \/ Key(ev'.a) \notin DOMAIN onlineUsers
           \/ Key(ev'.b) \notin DOMAIN onlineUsers
           \/ onlineUsers[Key(ev'.b)].inGame
        THEN /\ out' = {Msg("errorMsg", ev'.sock, 0, 0, 0)}
             /\ pendingChallenges' = pendingChallenges
        ELSE /\ DOMAIN pendingChallenges' = DOMAIN pendingChallenges \cup {Key(ev'.b)}
             /\ pendingChallenges'[Key(ev'.b)] = ev'.a
             /\ \A k \in DOMAIN pendingChallenges \ {Key(ev'.b)} :
                    pendingChallenges'[k] = pendingChallenges[k]
             /\ out' = {Msg("challengeReceived", onlineUsers[Key(ev'.b)].socketId,
                            ev'.a, 0, 0)}]_vars

\* a challenge to an occupied user was refused with errorMsg while another
\* challenge is stored
C20_Witness ==
    /\ ev.op = "sendChallenge"
    /\ out = {Msg("errorMsg", ev.sock, 0, 0, 0)}
    /\ Key(ev.a) \in DOMAIN onlineUsers
    /\ Key(ev.b) \in DOMAIN onlineUsers
    /\ onlineUsers[Key(ev.b)].inGame
    /\ pendingChallenges # << >>

\* C21: an acceptChallenge for a challenged id under which no challenge is
\* stored sends errorMsg to the sender and to nobody else, and leaves the
\* challenge table, the games, the registry and the connections as they were.
C21_AcceptWithoutChallenge ==
    [][(ev'.op = "acceptChallenge" /\ Key(ev'.a) \notin DOMAIN pendingChallenges) =>
        /\ out' = {Msg("errorMsg", ev'.sock, 0, 0, 0)}
        /\ pendingChallenges' = pendingChallenges
        /\ activeGames' = activeGames
        /\ onlineUsers' = onlineUsers
        /\ connected' = connected
        /\ endQ' = endQ]_vars

\* an acceptChallenge was answered with errorMsg while a challenge for the
\* other user is stored
C21_Witness ==
    /\ ev.op = "acceptChallenge"
    /\ Key(ev.a) \notin DOMAIN pendingChallenges
    /\ out = {Msg("errorMsg", ev.sock, 0, 0, 0)}
    /\ pendingChallenges # << >>
    /\ activeGames = << >>

\* C22: an acceptChallenge that finds a challenge removes it, adds exactly one
\* game with players (challenger, challenged), nine empty cells, currentTurn
\* the challenger and no winner, leaves both players with a registry entry
\* that is inGame, sends gameStarted to each player's connection with the
\* other's id, and broadcasts the resulting registry, all in that one step.
C22_AcceptCreatesSession ==
    [][(ev'.op = "acceptChallenge" /\ Key(ev'.a) \in DOMAIN pendingChallenges) =>
        LET challengerId == pendingChallenges[Key(ev'.a)]
        IN /\ pendingChallenges' = Remove(pendingChallenges, Key(ev'.a))
           /\ ev'.g \notin DOMAIN activeGames
           /\ DOMAIN activeGames' = DOMAIN activeGames \cup {ev'.g}
           /\ \A g \in DOMAIN activeGames : activeGames'[g] = activeGames[g]
           /\ activeGames'[ev'.g].players = <<challengerId, ev'.a>>
           /\ BoardLength(activeGames'[ev'.g].board) = 9
           /\ \A c \in Cells : activeGames'[ev'.g].board[c] = "E"
           /\ activeGames'[ev'.g].currentTurn = challengerId
           /\ activeGames'[ev'.g].winner = Null
           /\ \A p \in {Key(challengerId), Key(ev'.a)} :
                  /\ p \in DOMAIN onlineUsers'
                  /\ onlineUsers'[p].inGame
           /\ Key(challengerId) \in DOMAIN onlineUsers' =>
                  Msg("gameStarted", onlineUsers'[Key(challengerId)].socketId, ev'.a, 0, 0)
                      \in out'
           /\ Key(ev'.a) \in DOMAIN onlineUsers' =>
                  Msg("gameStarted", onlineUsers'[Key(ev'.a)].socketId, challengerId, 0, 0)
                      \in out'
           /\ Msg("onlinePlayers", AllSockets, Snapshot(onlineUsers'), 0, 0) \in out']_vars

\* C23: a refuseChallenge for a challenged id without a stored challenge emits
\* nothing and changes nothing; otherwise it removes that challenge, sends
\* challengeRefused to the challenger's connection, and leaves the registry
\* and the games as they were.
C23_RefuseChallenge ==
    [][ev'.op = "refuseChallenge" =>
        /\ onlineUsers' = onlineUsers
        /\ activeGames' = activeGames
        /\ IF Key(ev'.a) \notin DOMAIN pendingChallenges
           THEN /\ out' = {}
                /\ pendingChallenges' = pendingChallenges
           ELSE /\ pendingChallenges' = Remove(pendingChallenges, Key(ev'.a))
                /\ \E m \in out' : /\ m.type = "challengeRefused"
                                    /\ m.a = ev'.a
                                    /\ m.to \in connected
                                    /\ Key(pendingChallenges[Key(ev'.a)]) \in DOMAIN onlineUsers
                                    /\ m.to = onlineUsers[Key(pendingChallenges[Key(ev'.a)])].socketId]_vars

\* C24: a sendChallenge that is stored under a challenged id that already
\* holds a challenge leaves one challenge under that id, the new one; a stored
\* challenger changes only by such a sendChallenge; and an acceptChallenge
\* creates its game with the challenger stored at that moment.
C24_SingleSlot ==
    /\ [][(ev'.op = "sendChallenge" /\ out' # {Msg("errorMsg", ev'.sock, 0, 0, 0)}) =>
            /\ DOMAIN pendingChallenges' = DOMAIN pendingChallenges \cup {Key(ev'.b)}
            /\ pendingChallenges'[Key(ev'.b)] = ev'.a]_vars
    /\ [][\A k \in DOMAIN pendingChallenges \cap DOMAIN pendingChallenges' :
            pendingChallenges'[k] # pendingChallenges[k] =>
                /\ ev'.op = "sendChallenge"
                /\ Key(ev'.b) = k
                /\ pendingChallenges'[k] = ev'.a]_vars
    /\ [][(ev'.op = "acceptChallenge" /\ Key(ev'.a) \in DOMAIN pendingChallenges) =>
            /\ ev'.g \in DOMAIN activeGames'
            /\ activeGames'[ev'.g].players[1] = pendingChallenges[Key(ev'.a)]
            /\ activeGames'[ev'.g].players[2] = ev'.a
            /\ Key(ev'.a) \notin DOMAIN pendingChallenges']_vars

\* a sendChallenge has just overwritten the stored challenge of another
\* challenger
C24_Witness ==
    /\ ev.op = "sendChallenge"
    /\ replaced # Null
    /\ replaced # ev.a
    /\ pendingChallenges[Key(ev.b)] = ev.a

\* the entry of user u in a broadcast payload: 0 none, 1 free, 2 inGame
PayloadDigit(n, u) == (n \div (3 ^ (u - 1))) % 3

\* C25: every step that changes the registry (an entry added, removed, or its
\* socket or inGame flag changed) emits in that same step an onlinePlayers
\* message to all connections whose payload lists exactly the users of the
\* registry after the change, each with its inGame flag after the change.
C25_RegistryChangeBroadcast ==
    [][onlineUsers' # onlineUsers =>
        \E m \in out' :
            /\ m.type = "onlinePlayers"
            /\ m.to = AllSockets
            /\ \A u \in Users :
                   PayloadDigit(m.a, u) =
                       IF u \notin DOMAIN onlineUsers' THEN 0
                       ELSE IF onlineUsers'[u].inGame THEN 2 ELSE 1]_vars

\* a game has just been torn down: both players are back in the lobby and the
\* broadcast of this step shows both as free
C25_Witness ==
    /\ ev.op \in {"endGameThen", "quitGame"}
    /\ activeGames = << >>
    /\ DOMAIN onlineUsers = {1, 2}
    /\ \A u \in {1, 2} : ~onlineUsers[u].inGame
    /\ Msg("onlinePlayers", AllSockets, 4, 0, 0) \in out

\* C26: every updateGame and gameEnded message of a step goes to the socket
\* registered to one of the two participants of the game the step is about;
\* and every accepted move sends updateGame to the sockets of both
\* participants, whether it won, tied or passed the turn.
C26_SessionUpdatesReachBoth ==
    /\ [][\A m \in out' : m.type \in {"updateGame", "gameEnded"} =>
            \E p \in Participants(ev'.g) :
                /\ p \in DOMAIN onlineUsers
                /\ onlineUsers[p].socketId = m.to]_vars
    /\ [][(ev'.op = "makeMove" /\ activeGames' # activeGames) =>
            \A p \in Participants(ev'.g) :
                /\ p \in DOMAIN onlineUsers
                /\ Msg("updateGame", onlineUsers[p].socketId, 0, 0, 0) \in out']_vars

\* C27: an accepted makeMove changes exactly one of the 9 cells, from empty to
\* the mover's mark (X for the first participant, O for the second); when it
\* leaves the outcome unset currentTurn is the other participant afterwards,
\* and when it sets the outcome currentTurn is as it was.
C27_AcceptedMoveFrame ==
    [][(/\ ev'.op = "makeMove"
        /\ ev'.g \in DOMAIN activeGames
        /\ activeGames' # activeGames) =>
            LET old == activeGames[ev'.g]
                new == activeGames'[ev'.g]
                changed == {c \in Cells : new.board[c] # old.board[c]}
            IN /\ Cardinality(changed) = 1
               /\ \A c \in changed :
                      /\ old.board[c] = "E"
                      /\ new.board[c] = IF Key(ev'.a) = Key(old.players[1]) THEN "X" ELSE "O"
               /\ new.winner = Null =>
                      /\ new.currentTurn # old.currentTurn
                      /\ new.currentTurn \in {old.players[1], old.players[2]}
               /\ new.winner # Null => new.currentTurn = old.currentTurn]_vars

\* C28: a quitGame by a participant of a session with unset outcome sets the
\* outcome to the other participant's id; and after every quitGame on a
\* session of the map a step follows that ends it: the session is out of the
\* map, no participant is occupied, each participant's socket has received
\* gameEnded and the registry was broadcast.
C28_QuitTerminates ==
    /\ [][(/\ ev'.op = "quitGame"
            /\ InProgress(ev'.g)
            /\ Key(ev'.a) \in PlayerKeys(activeGames[ev'.g])
            /\ ev'.g \in DOMAIN activeGames') =>
                activeGames'[ev'.g].winner = OtherPlayer(activeGames[ev'.g], Key(ev'.a))]_vars
    /\ (ev.op = "quitGame" /\ ev.g \in DOMAIN activeGames) ~>
            (/\ ev.op = "endGameThen"
             /\ ev.g \notin DOMAIN activeGames
             /\ \A u \in Participants(ev.g) \cap DOMAIN onlineUsers :
                    /\ ~onlineUsers[u].inGame
                    /\ \E m \in out : m.type = "gameEnded" /\ m.to = onlineUsers[u].socketId
             /\ \E m \in out : m.type = "onlinePlayers")

\* C29: a requestReplay on a session whose outcome is unset (no winner
\* recorded and the board neither won nor full) leaves that session's board,
\* outcome and currentTurn as they were, whatever requests came before it.
C29_RematchOnlyWhenTerminal ==
    [][(/\ ev'.op = "requestReplay"
        /\ ev'.g \in DOMAIN activeGames
        /\ ev'.g \in DOMAIN activeGames'
        /\ activeGames[ev'.g].winner = Null
        /\ ~Finished(activeGames[ev'.g].board)) =>
            /\ activeGames'[ev'.g].board = activeGames[ev'.g].board
            /\ activeGames'[ev'.g].winner = activeGames[ev'.g].winner
            /\ activeGames'[ev'.g].currentTurn = activeGames[ev'.g].currentTurn]_vars

\* C30: a requestReplay on a session with a finished board after which both
\* participants have voted, and which therefore resets the session, leaves
\* currentTurn equal to what it was before the reset.
C30_RematchKeepsTurn ==
    [][(/\ ev'.op = "requestReplay"
        /\ ev'.g \in DOMAIN activeGames
        /\ ev'.g \in DOMAIN activeGames'
        /\ Finished(activeGames[ev'.g].board)
        /\ PlayerKeys(activeGames[ev'.g]) \subseteq activeGames'[ev'.g].replayVotes) =>
            activeGames'[ev'.g].currentTurn = activeGames[ev'.g].currentTurn]_vars

\* C31: after the disconnect step of a user u that had a registry entry, no
\* stored challenge has u as its challenged id or as its challenger; and an
\* acceptChallenge that creates a game finds both players of that game in
\* the registry.
C31_DisconnectDestroysChallenges ==
    /\ [][(ev'.op = "disconnect" /\ ev'.a # Null) =>
            \A k \in DOMAIN pendingChallenges' :
                /\ k # ev'.a
                /\ Key(pendingChallenges'[k]) # ev'.a]_vars
    /\ [][(ev'.op = "acceptChallenge" /\ ev'.g \in DOMAIN activeGames') =>
            Participants(ev'.g) \subseteq DOMAIN onlineUsers]_vars

\* C32: a makeMove or quitGame naming session s, and the reconciliation and
\* teardown steps of s, leave every other session of the map exactly as it
\* was (players, board, currentTurn, outcome); and a makeMove or quitGame
\* naming an id that is not in the map changes nothing and emits nothing.
C32_SessionsIndependent ==
    [][ev'.op \in {"makeMove", "quitGame", "statsCommit", "endGameThen"} =>
        /\ \A g \in DOMAIN activeGames \ {ev'.g} :
               /\ g \in DOMAIN activeGames'
               /\ activeGames'[g] = activeGames[g]
        /\ (ev'.op \in {"makeMove", "quitGame"} /\ ev'.g \notin DOMAIN activeGames) =>
               /\ out' = {}
               /\ activeGames' = activeGames
               /\ onlineUsers' = onlineUsers
               /\ pendingChallenges' = pendingChallenges
               /\ endQ' = endQ]_vars

\* one of two live sessions has just been torn down while the other, with
\* marks on its board, is still in the map
C32_Witness ==
    /\ ev.op = "endGameThen"
    /\ Cardinality(DOMAIN activeGames) = 1
    /\ \A g \in DOMAIN activeGames :
            /\ g # ev.g
            /\ Cardinality(Filled(activeGames[g].board)) = 2

\* the queue stored under a challenged id in a challenge table, [] when missing
QueueIn(table, challengedId) ==
    IF Key(challengedId) \in DOMAIN table THEN table[Key(challengedId)] ELSE << >>

\* C33: (part_004) a sendChallenge that is delivered appends its challenger
\* to the end of the queue of the challenged id; an acceptChallenge on a
\* non-empty queue creates its game with the head of the queue and leaves the
\* tail queued in the same order; an acceptChallenge on an empty or missing
\* queue sends errorMsg to the sender and creates no game.
C33_QueueFifo ==
    /\ [][(ev'.op = "sendChallenge" /\ \E m \in out' : m.type = "challengeReceived") =>
            QueueIn(pendingChallenges', ev'.b) =
                Append(QueueIn(pendingChallenges, ev'.b), ev'.a)]_vars
    /\ [][(ev'.op = "acceptChallenge" /\ QueueIn(pendingChallenges, ev'.a) # << >>) =>
            /\ QueueIn(pendingChallenges', ev'.a) = Tail(QueueIn(pendingChallenges, ev'.a))
            /\ ev'.g \in DOMAIN activeGames'
            /\ activeGames'[ev'.g].players =
                    <<Head(QueueIn(pendingChallenges, ev'.a)), ev'.a>>]_vars
    /\ [][(ev'.op = "acceptChallenge" /\ QueueIn(pendingChallenges, ev'.a) = << >>) =>
            /\ out' = {Msg("errorMsg", ev'.sock, 0, 0, 0)}
            /\ activeGames' = activeGames
            /\ pendingChallenges' = pendingChallenges]_vars

\* C34: the two participants of every game in the map are different users.
C34_DistinctParticipants ==
    \A g \in DOMAIN activeGames :
        Key(activeGames[g].players[1]) # Key(activeGames[g].players[2])

\* C35: an acceptChallenge creates a game only when, before the step, the
\* stored challenger and the challenged user both have a registry entry and
\* neither entry is inGame.
C35_AcceptNeedsBothFree ==
    [][(ev'.op = "acceptChallenge" /\ Key(ev'.a) \in DOMAIN pendingChallenges
            /\ ev'.g \in DOMAIN activeGames') =>
        \A u \in {Key(pendingChallenges[Key(ev'.a)]), Key(ev'.a)} :
            /\ u \in DOMAIN onlineUsers
            /\ ~onlineUsers[u].inGame]_vars

\* C36: a quitGame on a game of the map whose userId is neither of the two
\* players leaves the game (outcome included) in the map as it was, starts no
\* reconciliation and emits nothing.
C36_StrangerQuitIgnored ==
    [][(/\ ev'.op = "quitGame"
        /\ ev'.g \in DOMAIN activeGames
        /\ Key(ev'.a) \notin PlayerKeys(activeGames[ev'.g])) =>
            /\ activeGames' = activeGames
            /\ endQ' = endQ
            /\ onlineUsers' = onlineUsers
            /\ out' = {}]_vars

\* C37: an acceptChallenge, refuseChallenge, makeMove or quitGame step that
\* changes the challenge table, the games, the registry or the pending
\* reconciliations was sent by the connection that the registry holds for the
\* user id named in the message.
C37_SenderIsNamedUser ==
    [][(/\ ev'.op \in {"acceptChallenge", "refuseChallenge", "makeMove", "quitGame"}
        /\ <<pendingChallenges, activeGames, onlineUsers, endQ>>'
               # <<pendingChallenges, activeGames, onlineUsers, endQ>>) =>
            /\ Key(ev'.a) \in DOMAIN onlineUsers
            /\ onlineUsers[Key(ev'.a)].socketId = ev'.sock]_vars

\* C38 as stated: the disconnect of a connection that was replaced in the
\* entry of a user leaves the registry, the challenges and the games as they
\* were and emits nothing.
C38_StaleDisconnectSilent ==
    [][\A u \in Users :
        (ev'.op = "disconnect" /\ StaleFor(ev'.sock, u)) =>
            /\ onlineUsers' = onlineUsers
            /\ pendingChallenges' = pendingChallenges
            /\ activeGames' = activeGames
            /\ out' = {}]_vars

\* C38 as amended: the disconnect of a connection that was replaced in the
\* entry of user u leaves the entry of u, the challenges and the games as
\* they were; when no entry holds the closing connection it leaves the whole
\* registry as it was and emits nothing, and otherwise it removes one entry
\* that held the closing connection, of another user, and broadcasts the
\* registry.
C38_StaleDisconnectKeepsEntry ==
    [][\A u \in Users :
        (ev'.op = "disconnect" /\ StaleFor(ev'.sock, u)) =>
            /\ u \in DOMAIN onlineUsers'
            /\ onlineUsers'[u] = onlineUsers[u]
            /\ pendingChallenges' = pendingChallenges
            /\ activeGames' = activeGames
            /\ IF \A v \in DOMAIN onlineUsers : onlineUsers[v].socketId # ev'.sock
               THEN /\ onlineUsers' = onlineUsers
                    /\ out' = {}
               ELSE /\ \E v \in DOMAIN onlineUsers \ {u} :
                          /\ onlineUsers[v].socketId = ev'.sock
                          /\ onlineUsers' = [w \in DOMAIN onlineUsers \ {v} |-> onlineUsers[w]]
                    /\ out' = {Msg("onlinePlayers", AllSockets, Snapshot(onlineUsers'), 0, 0)}]_vars

\* connection 1, replaced by connection 2 in the entry of user 1 and holding
\* no entry, has just closed
C38_Witness ==
    /\ ev.op = "disconnect"
    /\ ev.sock = 1
    /\ ev.b = 1
    /\ onlineUsers[1].socketId = 2
    /\ \A v \in DOMAIN onlineUsers : onlineUsers[v].socketId # 1
    /\ out = {}

\* C39: the reconciliation of a session issues, for each of its two
\* participants and whether or not that participant has an entry, an UPDATE
\* with the outcome of the session, and the deltas an UPDATE commits are those
\* of the outcome for that participant: played + 1, won + 1 for the winner,
\* lost + 1 for the other participant of a won session.
C39_StatsIgnorePresence ==
    [][/\ (ev'.op = "quitGame" /\ ev'.g \in DOMAIN activeGames) =>
            \A i \in {1, 2} :
                \E e \in BagToSet(endQ') :
                    /\ e.g = ev'.g
                    /\ e.players = activeGames[ev'.g].players
                    /\ e.winner = Forfeit(activeGames[ev'.g], ev'.a)
                    /\ i \in e.pend
                    /\ CopiesIn(e, endQ') > CopiesIn(e, endQ)
       /\ ev'.op = "statsCommit" =>
            \E played, won, lost \in {0, 1} :
                /\ out' = {Msg("dbUpdate", Key(ev'.a), played, won, lost)}
                /\ played = 1
                /\ won = 1 <=> (ev'.b # Tie /\ Key(ev'.a) = Key(ev'.b))
                /\ lost = 1 <=> (ev'.b # Tie /\ Key(ev'.a) # Key(ev'.b))]_vars

\* the elements of the board array that carry mark m (an index below 0 is a
\* property of the array, not an element)
CellsMarked(board, m) == {k \in BoardKeys : k >= 0 /\ board[k] = m}

\* C40: in every session the number of cells marked X minus the number marked
\* O is 0 or 1, and while the outcome is unset currentTurn is the first
\* participant exactly when the two numbers are equal.
C40_MarkCountsFollowTurn ==
    \A g \in DOMAIN activeGames :
        LET game == activeGames[g]
            x == Cardinality(CellsMarked(game.board, "X"))
            o == Cardinality(CellsMarked(game.board, "O"))
        IN /\ x - o \in {0, 1}
           /\ game.winner = Null => (game.currentTurn = game.players[1] <=> x = o)

====
